---- MODULE Spec2Model ----
(***************************************************************************)
(* Model of backend/app.py: the Flask document analyzer.  The state is the *)
(* two tables of documents.db, the files of the upload folder and, for     *)
(* each request being served, the position and the local variables of its  *)
(* handler.  Requests are served concurrently (one thread per request);    *)
(* a step of a handler is one access to the shared state (a file write, a  *)
(* file read, a committed SQL statement) or one round trip to the model    *)
(* service.                                                                *)
(***************************************************************************)
EXTENDS Integers, Sequences, FiniteSets, TLC

\* ------------------------------------------------------------------ bounds
\* Number of rows the documents table may hold (uploads stop being accepted
\* by the model, not by the program, once it is reached).
MaxDocs == 2

\* The threads that serve requests: two requests at a time.
Procs == {1, 2}

\* --------------------------------------------------------- python values
\* Python's None (and SQL NULL), as read back through sqlite3.Row.
None == "<None>"

\* `x if x else d` and `x or d`: None, '' and 0.0 are falsy.
Falsy(v) == v \in {None, "", "0.0"}

Range(s) == {s[i] : i \in DOMAIN s}

\* ------------------------------------------------------------- filenames
\* A filename is the sequence of its characters.
ALLOWED_EXTENSIONS == {<<"p", "d", "f">>}

A_PDF == <<"a", ".", "p", "d", "f">>
UP_A_PDF == <<".", ".", "/", "a", ".", "p", "d", "f">>
A_TXT == <<"a", ".", "t", "x", "t">>
PDF_NODOT == <<"p", "d", "f">>
EMPTY_NAME == <<>>

\* str.lower(), on the letters the model uses.
lower(c) ==
  CASE c = "P" -> "p"
    [] c = "D" -> "d"
    [] c = "F" -> "f"
    [] c = "A" -> "a"
    [] OTHER -> c

\* Position of the last '.', 0 when there is none.
LastDot(name) ==
  LET dots == {i \in DOMAIN name : name[i] = "."}
  IN  IF dots = {} THEN 0 ELSE CHOOSE i \in dots : \A j \in dots : j <= i

\* filename.rsplit('.', 1)[1].lower()
Extension(name) ==
  LET d == LastDot(name)
  IN  [i \in 1..(Len(name) - d) |-> lower(name[d + i])]

\* Mutant: any name with a dot passes.
allowed_file_any_extension(filename) == LastDot(filename) # 0

allowed_file(filename) ==
  /\ LastDot(filename) # 0
  /\ Extension(filename) \in ALLOWED_EXTENSIONS

\* werkzeug's secure_filename: a path separator or a blank becomes '_', then
\* leading and trailing '.' and '_' are stripped.
SafeChar(c) == c \notin {"/", " "}

RECURSIVE StripLeft(_)
StripLeft(s) ==
  IF s # <<>> /\ Head(s) \in {".", "_"} THEN StripLeft(Tail(s)) ELSE s

RECURSIVE StripRight(_)
StripRight(s) ==
  IF s # <<>> /\ s[Len(s)] \in {".", "_"}
  THEN StripRight(SubSeq(s, 1, Len(s) - 1))
  ELSE s

secure_filename(name) ==
  LET joined == [i \in DOMAIN name |-> IF SafeChar(name[i]) THEN name[i] ELSE "_"]
  IN  StripRight(StripLeft(joined))

\* ------------------------------------------------------------ pdf files
\* The bytes a client may send, and what fitz makes of them.
PDF1 == "%PDF-one"
PDF2 == "%PDF-two"
CORRUPT == "not-a-pdf"
NoFile == "<no file>"
Bytes == {PDF1, PDF2, CORRUPT}

\* fitz.open(...) and the concatenation of page.get_text(): the text of the
\* pages, or an exception that extract_text_from_pdf turns into None.
PageText(bytes) ==
  CASE bytes = PDF1 -> "Invoice #123, total due $50"
    [] bytes = PDF2 -> "This agreement is made between"
    [] OTHER -> None

\* ------------------------------------------------------------ json values
\* What json.loads(response.text) yields: an object (type "dict", with the
\* set of its keys), an array (type "list", with its items) or null.  A
\* field of a key that is not in `keys` holds a filler that is never read.
CLASS_KEYS == {"document_type", "confidence_score"}

ClsDict(keys, t, c) ==
  [type |-> "dict", keys |-> keys,
   document_type |-> IF "document_type" \in keys THEN t ELSE "",
   confidence_score |-> IF "confidence_score" \in keys THEN c ELSE ""]

ClsNonDict(type) ==
  [type |-> type, keys |-> {}, document_type |-> "", confidence_score |-> ""]

required_keys ==
  {"missing_fields", "incomplete_fields", "recommendations", "risk_factors",
   "compliance_notes", "completeness_score", "critical_issues"}

required_keys_seq ==
  <<"missing_fields", "incomplete_fields", "recommendations", "risk_factors",
    "compliance_notes", "completeness_score", "critical_issues">>

\* The value line 205 fills in for an absent key.
FillDefault(key) == IF key # "completeness_score" THEN <<>> ELSE 0

NoFields ==
  [missing_fields |-> <<>>, incomplete_fields |-> <<>>, recommendations |-> <<>>,
   risk_factors |-> <<>>, compliance_notes |-> <<>>, completeness_score |-> 0,
   critical_issues |-> <<>>]

\* An object with the keys `keys`, their values taken from `fields`.
RepDict(keys, fields) ==
  [type |-> "dict", keys |-> keys, items |-> <<>>,
   missing_fields |-> IF "missing_fields" \in keys THEN fields.missing_fields ELSE <<>>,
   incomplete_fields |-> IF "incomplete_fields" \in keys THEN fields.incomplete_fields ELSE <<>>,
   recommendations |-> IF "recommendations" \in keys THEN fields.recommendations ELSE <<>>,
   risk_factors |-> IF "risk_factors" \in keys THEN fields.risk_factors ELSE <<>>,
   compliance_notes |-> IF "compliance_notes" \in keys THEN fields.compliance_notes ELSE <<>>,
   completeness_score |-> IF "completeness_score" \in keys THEN fields.completeness_score ELSE 0,
   critical_issues |-> IF "critical_issues" \in keys THEN fields.critical_issues ELSE <<>>]

RepNonDict(type, items) ==
  [type |-> type, keys |-> {}, items |-> items,
   missing_fields |-> <<>>, incomplete_fields |-> <<>>, recommendations |-> <<>>,
   risk_factors |-> <<>>, compliance_notes |-> <<>>, completeness_score |-> 0,
   critical_issues |-> <<>>]

\* dict.get(key, default)
Get(d, key, default) == IF key \in d.keys THEN d[key] ELSE default

\* -------------------------------------------------- the model service
\* One round trip: model.generate_content(...) followed by
\* json.loads(response.text).  kind "raise": the call raises; "invalid":
\* the response text is not JSON; "json": it parses to `value`.
Reply(kind, value) == [kind |-> kind, value |-> value]

ClassifierReplies ==
  {Reply("raise", ClsNonDict("null")),
   Reply("invalid", ClsNonDict("null")),
   Reply("json", ClsDict(CLASS_KEYS, "Contract", "0.9")),
   Reply("json", ClsDict(CLASS_KEYS, "Report", "0.7")),
   Reply("json", ClsDict({"document_type"}, "Invoice", "")),
   Reply("json", ClsDict({"confidence_score"}, "", "0.8")),
   Reply("json", ClsDict(CLASS_KEYS, None, None)),
   Reply("json", ClsDict(CLASS_KEYS, "", "0.0")),
   Reply("json", ClsNonDict("list"))}

FullFields ==
  [missing_fields |-> <<"due_date", "tax">>, incomplete_fields |-> <<"bill_to">>,
   recommendations |-> <<"Add a due date">>, risk_factors |-> <<"late payment">>,
   compliance_notes |-> <<"no tax id">>, completeness_score |-> 60,
   critical_issues |-> <<"no total">>]

AnalyzerReplies ==
  {Reply("raise", RepNonDict("null", <<>>)),
   Reply("invalid", RepNonDict("null", <<>>)),
   Reply("json", RepDict(required_keys, FullFields)),
   Reply("json", RepDict({"missing_fields", "recommendations"}, FullFields)),
   Reply("json", RepNonDict("null", <<>>)),
   Reply("json", RepNonDict("list", <<"due_date">>)),
   Reply("json", RepNonDict("list", required_keys_seq))}

\* --------------------------------------------------------- the classifier
SENTINEL == ClsDict(CLASS_KEYS, "Error", "0.0")

\* Mutant: a response that lacks a key is answered with the sentinel.
classify_document_checked(text, reply) ==
  IF reply.kind = "json" /\ CLASS_KEYS \subseteq reply.value.keys
  THEN reply.value
  ELSE SENTINEL

\* classify_document: the parsed response as it is, the sentinel when the
\* call or json.loads raises.
classify_document(text, reply) ==
  IF reply.kind = "json" THEN reply.value ELSE SENTINEL

\* ------------------------------------------------------- the gap analyzer
REQUIRED_FIELDS ==
  [Contract |-> <<"party_names", "effective_date", "contract_term",
                  "payment_terms", "scope_of_work", "termination_clause",
                  "governing_law", "signatures", "confidentiality", "liability">>,
   Invoice |-> <<"invoice_number", "amount", "due_date", "tax", "bill_to",
                 "bill_from", "payment_terms", "itemized_list", "subtotal", "total">>]

TRIVIAL_REPORT ==
  RepDict({"missing_fields", "recommendations"},
          [NoFields EXCEPT !.recommendations =
             <<"Document type does not have a defined set of required fields.">>])

DEGRADED_REPORT ==
  RepDict({"missing_fields", "recommendations"},
          [NoFields EXCEPT !.missing_fields = <<"Analysis Error">>,
                           !.recommendations =
             <<"Could not perform analysis due to an API error.">>])

\* Whether analyze_missing_fields calls the model service for type t, and
\* how many times: line 196 is the only call, and nothing repeats it.
CallsModel(t) == t \in DOMAIN REQUIRED_FIELDS
ModelCalls(t) == IF CallsModel(t) THEN 1 ELSE 0

\* Lines 203-205 on an object: every absent key is filled.
FillMissing(result) ==
  [f \in DOMAIN result |->
     IF f = "keys" THEN required_keys
     ELSE IF f \in required_keys /\ f \notin result.keys THEN FillDefault(f)
     ELSE result[f]]

\* Mutant: the except clause answers with an empty report.
NormaliseEmptyOnError(reply) ==
  IF reply.kind = "json" /\ reply.value.type = "dict"
  THEN FillMissing(reply.value)
  ELSE RepDict({"missing_fields", "recommendations"}, NoFields)

\* Lines 196-210 for a response that arrived: the loop of lines 203-205
\* raises TypeError on null and on an array that lacks one of the keys (the
\* item assignment), and leaves an array that holds all seven names alone.
Normalise(reply) ==
  IF reply.kind # "json" THEN DEGRADED_REPORT
  ELSE CASE reply.value.type = "dict" -> FillMissing(reply.value)
         [] reply.value.type = "list" ->
              IF required_keys \subseteq Range(reply.value.items)
              THEN reply.value
              ELSE DEGRADED_REPORT
         [] OTHER -> DEGRADED_REPORT

analyze_missing_fields(text, t, reply) ==
  IF ~CallsModel(t) THEN TRIVIAL_REPORT ELSE Normalise(reply)

\* The "analysis" object of both payloads (lines 280-288 and 334-342).
AnalysisPayload(analysis_result) ==
  [missing_fields |-> Get(analysis_result, "missing_fields", <<>>),
   incomplete_fields |-> Get(analysis_result, "incomplete_fields", <<>>),
   recommendations |-> Get(analysis_result, "recommendations", <<>>),
   risk_factors |-> Get(analysis_result, "risk_factors", <<>>),
   compliance_notes |-> Get(analysis_result, "compliance_notes", <<>>),
   completeness_score |-> Get(analysis_result, "completeness_score", 0),
   critical_issues |-> Get(analysis_result, "critical_issues", <<>>)]

\* ------------------------------------------------------------------ state
VARIABLES
  documents,              \* table documents(id, filename, content), by id
  analysis_results,       \* table analysis_results, in insertion order
  uploads,                \* UPLOAD_FOLDER: path -> bytes of the file there
  pc,                     \* where each request's handler is
  request,                \* the request a handler is serving
  filename,               \* locals of upload_and_analyze_document
  text_content,
  doc_id,
  classification_result,
  analysis_result,
  doc_type,               \* the type handed to analyze_missing_fields
  model_reply,            \* what the model service answered to each call
  response,               \* the response of a finished request
  effects                 \* what the request did: rows inserted, calls made

vars ==
  <<documents, analysis_results, uploads, pc, request, filename, text_content,
    doc_id, classification_result, analysis_result, doc_type, model_reply,
    response, effects>>

store == <<documents, analysis_results>>
locals ==
  <<filename, text_content, doc_id, classification_result, analysis_result,
    doc_type, model_reply>>

\* ---------------------------------------------------------------- requests
NoFilePart == [present |-> FALSE, filename |-> <<>>, data |-> NoFile]
FilePart(name, data) == [present |-> TRUE, filename |-> name, data |-> data]

RawNames == {A_PDF, UP_A_PDF, A_TXT, PDF_NODOT, EMPTY_NAME}

UploadFiles ==
  {NoFilePart} \cup {FilePart(n, PDF1) : n \in {A_TXT, PDF_NODOT, EMPTY_NAME}}
               \cup {FilePart(A_PDF, PDF1), FilePart(A_PDF, CORRUPT),
                     FilePart(UP_A_PDF, PDF2)}

NoRequest == [handler |-> "none", file |-> NoFilePart, id |-> 0]
UploadRequest(file) == [handler |-> "upload", file |-> file, id |-> 0]
ListRequest == [handler |-> "list", file |-> NoFilePart, id |-> 0]
FetchRequest(id) == [handler |-> "fetch", file |-> NoFilePart, id |-> id]

\* Lines 236-242: the status of the rejection, 0 when the upload goes on.
Rejection(file) ==
  IF ~file.present THEN [status |-> 400, error |-> "No file part in the request"]
  ELSE IF file.filename = EMPTY_NAME THEN [status |-> 400, error |-> "No file selected"]
  ELSE IF ~allowed_file(file.filename) THEN [status |-> 400, error |-> "File type not allowed"]
  ELSE [status |-> 0, error |-> ""]

\* --------------------------------------------------------------- responses
NoResponse == [status |-> 0, body |-> [error |-> ""]]
ErrorResponse(status, msg) == [status |-> status, body |-> [error |-> msg]]

\* An exception no handler catches: Flask answers 500.
UNCAUGHT == "Internal Server Error"

\* Per request: rows inserted into each table, calls of classify_document
\* and analyze_missing_fields, and the generate_content calls each made.
NoEffects ==
  [documents |-> 0, results |-> 0, classify |-> 0, analyze |-> 0,
   classify_generate |-> 0, analyze_generate |-> 0]

NoRow == [id |-> 0, filename |-> <<>>, content |-> None, doc_type |-> None, confidence |-> None]
NoClassification == ClsNonDict("null")
NoAnalysis == RepNonDict("null", <<>>)
NoReply == [kind |-> "none", value |-> NoAnalysis]
NoReplies == [classifier |-> Reply("none", NoClassification), analyzer |-> NoReply]

\* ------------------------------------------------------------------- store
\* INSERT INTO documents (filename, content): the id is the next rowid.
InsertDocument(rows, name, content) ==
  Append(rows, [id |-> Len(rows) + 1, filename |-> name, content |-> content])

\* json.dumps of a list of strings: the text of the array.
json_dumps(list) == [json |-> "array", items |-> list]

\* INSERT INTO analysis_results (doc_id, doc_type, confidence, missing_fields,
\* recommendations)
InsertResult(rows, id, type, conf, missing, recs) ==
  Append(rows, [id |-> Len(rows) + 1, doc_id |-> id, doc_type |-> type,
                confidence |-> conf, missing_fields |-> json_dumps(missing),
                recommendations |-> json_dumps(recs)])

\* documents d LEFT JOIN analysis_results r ON d.id = r.doc_id, for one d.
Joined(d, results) ==
  LET rs == SelectSeq(results, LAMBDA r : r.doc_id = d.id)
  IN  IF rs = <<>>
      THEN <<[id |-> d.id, filename |-> d.filename, content |-> d.content,
              doc_type |-> None, confidence |-> None]>>
      ELSE [i \in DOMAIN rs |->
              [id |-> d.id, filename |-> d.filename, content |-> d.content,
               doc_type |-> rs[i].doc_type, confidence |-> rs[i].confidence]]

\* Mutant: ORDER BY d.id, ascending.
RECURSIVE JoinAsc(_, _, _)
JoinAsc(docs, results, n) ==
  IF n = 0 THEN <<>>
  ELSE JoinAsc(docs, results, n - 1) \o Joined(docs[n], results)

\* ... ORDER BY d.id DESC, over the first n documents.
RECURSIVE JoinDesc(_, _, _)
JoinDesc(docs, results, n) ==
  IF n = 0 THEN <<>>
  ELSE Joined(docs[n], results) \o JoinDesc(docs, results, n - 1)

\* Lines 225-232: one entry of the list.
ListEntry(doc) ==
  [document_id |-> doc.id, filename |-> doc.filename,
   classification |->
     [document_type |-> IF ~Falsy(doc.doc_type) THEN doc.doc_type ELSE "Unknown",
      confidence_score |-> IF ~Falsy(doc.confidence) THEN doc.confidence ELSE "0.0"]]

get_documents(docs, results) ==
  LET rows == JoinDesc(docs, results, Len(docs))
  IN  [i \in DOMAIN rows |-> ListEntry(rows[i])]

\* Lines 299-306: the first joined row of the document, NoRow for None.
FetchOne(docs, results, id) ==
  IF id \in DOMAIN docs THEN Joined(docs[id], results)[1] ELSE NoRow

\* -------------------------------------------------------------------- init
Paths == {secure_filename(n) : n \in {m \in RawNames : allowed_file(m)}}

Init ==
  /\ documents = <<>>
  /\ analysis_results = <<>>
  /\ uploads = [f \in Paths |-> NoFile]
  /\ pc = [p \in Procs |-> "idle"]
  /\ request = [p \in Procs |-> NoRequest]
  /\ filename = [p \in Procs |-> <<>>]
  /\ text_content = [p \in Procs |-> None]
  /\ doc_id = [p \in Procs |-> 0]
  /\ classification_result = [p \in Procs |-> NoClassification]
  /\ analysis_result = [p \in Procs |-> NoAnalysis]
  /\ doc_type = [p \in Procs |-> None]
  /\ model_reply = [p \in Procs |-> NoReplies]
  /\ response = [p \in Procs |-> NoResponse]
  /\ effects = [p \in Procs |-> NoEffects]

\* The uploads that have passed line 242 and have not inserted their document.
Pending == {q \in Procs : pc[q] \in {"saved", "extracted"}}

\* A thread takes a request when it is idle; a server that runs one request
\* at a time (threaded=False) takes none while another is being served.
Ready(p, serial) ==
  /\ pc[p] = "idle"
  /\ serial => \A q \in Procs : pc[q] = "idle"

Respond(p, r) ==
  /\ response' = [response EXCEPT ![p] = r]
  /\ pc' = [pc EXCEPT ![p] = "done"]

\* ------------------------------------------------ upload_and_analyze_document
\* Lines 236-240 and 290-291: the request is turned down.
UploadReject(p, serial) ==
  /\ Ready(p, serial)
  /\ \E file \in UploadFiles :
       /\ Rejection(file).status # 0
       /\ request' = [request EXCEPT ![p] = UploadRequest(file)]
       /\ Respond(p, ErrorResponse(Rejection(file).status, Rejection(file).error))
  /\ UNCHANGED <<store, uploads, locals, effects>>

\* Lines 242-245: the file is saved under its sanitized name.
UploadSave(p, serial) ==
  /\ Ready(p, serial)
  /\ Len(documents) + Cardinality(Pending) < MaxDocs
  /\ \E file \in UploadFiles :
       /\ Rejection(file).status = 0
       /\ request' = [request EXCEPT ![p] = UploadRequest(file)]
       /\ filename' = [filename EXCEPT ![p] = secure_filename(file.filename)]
       /\ uploads' = [uploads EXCEPT ![secure_filename(file.filename)] = file.data]
  /\ pc' = [pc EXCEPT ![p] = "saved"]
  /\ UNCHANGED <<store, text_content, doc_id, classification_result,
                 analysis_result, doc_type, model_reply, response, effects>>

\* extract_text_from_pdf(filepath): the text of the file that is at the path
\* now, None when fitz raises.
extract_text_from_pdf(filepath) == PageText(uploads[filepath])

\* Lines 247-249.
UploadExtract(p) ==
  /\ pc[p] = "saved"
  /\ LET text == extract_text_from_pdf(filename[p])
     IN  IF text = None
         THEN /\ Respond(p, ErrorResponse(500, "Could not extract text from PDF"))
              /\ UNCHANGED text_content
         ELSE /\ text_content' = [text_content EXCEPT ![p] = text]
              /\ pc' = [pc EXCEPT ![p] = "extracted"]
              /\ UNCHANGED response
  /\ UNCHANGED <<store, uploads, request, filename, doc_id,
                 classification_result, analysis_result, doc_type, model_reply,
                 effects>>

\* Lines 251-259: the document is inserted and committed.
UploadInsertDocument(p) ==
  /\ pc[p] = "extracted"
  /\ documents' = InsertDocument(documents, filename[p], text_content[p])
  /\ doc_id' = [doc_id EXCEPT ![p] = Len(documents')]
  /\ effects' = [effects EXCEPT ![p].documents = @ + Len(documents') - Len(documents)]
  /\ pc' = [pc EXCEPT ![p] = "inserted"]
  /\ UNCHANGED <<analysis_results, uploads, request, filename, text_content,
                 classification_result, analysis_result, doc_type, model_reply,
                 response>>

\* Lines 262-263.
DocType(cr) == Get(cr, "document_type", "Other")
Confidence(cr) == Get(cr, "confidence_score", "0.0")

\* Lines 261-263: .get raises AttributeError on a value that is no dict,
\* and nothing catches it.
UploadClassify(p, replies) ==
  /\ pc[p] = "inserted"
  /\ \E reply \in replies :
       LET cr == classify_document(text_content[p], reply)
       IN  /\ model_reply' = [model_reply EXCEPT ![p].classifier = reply]
           /\ classification_result' = [classification_result EXCEPT ![p] = cr]
           /\ IF cr.type # "dict"
              THEN /\ Respond(p, ErrorResponse(500, UNCAUGHT))
                   /\ UNCHANGED doc_type
              ELSE /\ doc_type' = [doc_type EXCEPT ![p] = DocType(cr)]
                   /\ pc' = [pc EXCEPT ![p] = "classified"]
                   /\ UNCHANGED response
  /\ effects' = [effects EXCEPT ![p].classify = @ + 1,
                                ![p].classify_generate = @ + 1]
  /\ UNCHANGED <<store, uploads, request, filename, text_content, doc_id,
                 analysis_result>>

\* The replies the model service may give to analyze_missing_fields: none is
\* asked for when the type has no required fields.
RepliesFor(t, replies) ==
  IF CallsModel(t) THEN replies
  ELSE {NoReply}

\* Mutant: the id of the newest document at the time of the second insert.
ResultDocIdNewest(p) == Len(documents)

\* The doc_id of the analysis_results row: cursor.lastrowid of the insert.
ResultDocId(p) == doc_id[p]

\* Mutant: cursor.lastrowid read after the second insert.
UploadCreatedLateRowId(p, cr, ar) ==
  [status |-> 201,
   body |-> [message |-> "File uploaded and analyzed successfully",
             document_id |-> Len(analysis_results) + 1,
             filename |-> filename[p],
             classification |-> cr,
             analysis |-> AnalysisPayload(ar)]]

UploadCreated(p, cr, ar) ==
  [status |-> 201,
   body |-> [message |-> "File uploaded and analyzed successfully",
             document_id |-> doc_id[p],
             filename |-> filename[p],
             classification |-> cr,
             analysis |-> AnalysisPayload(ar)]]

\* Lines 265-289: the analysis, the insert of its row, the response.  .get
\* on line 266 raises AttributeError on a value that is no dict.
UploadAnalyze(p, replies) ==
  /\ pc[p] = "classified"
  /\ LET cr == classification_result[p]
     IN  \E reply \in RepliesFor(doc_type[p], replies) :
           LET ar == analyze_missing_fields(text_content[p], doc_type[p], reply)
           IN  /\ model_reply' = [model_reply EXCEPT ![p].analyzer = reply]
               /\ analysis_result' = [analysis_result EXCEPT ![p] = ar]
               /\ IF ar.type # "dict"
                  THEN /\ Respond(p, ErrorResponse(500, UNCAUGHT))
                       /\ effects' =
                            [effects EXCEPT
                               ![p].analyze = @ + 1,
                               ![p].analyze_generate = @ + ModelCalls(doc_type[p])]
                       /\ UNCHANGED analysis_results
                  ELSE /\ analysis_results' =
                            InsertResult(analysis_results, ResultDocId(p),
                                         doc_type[p], Confidence(cr),
                                         Get(ar, "missing_fields", <<>>),
                                         Get(ar, "recommendations", <<>>))
                       /\ effects' =
                            [effects EXCEPT
                               ![p].analyze = @ + 1,
                               ![p].analyze_generate = @ + ModelCalls(doc_type[p]),
                               ![p].results = @ + Len(analysis_results') - Len(analysis_results)]
                       /\ Respond(p, UploadCreated(p, cr, ar))
  /\ UNCHANGED <<documents, uploads, request, filename, text_content, doc_id,
                 classification_result, doc_type>>

\* ---------------------------------------------------------------- get_documents
ListDocuments(p, serial) ==
  /\ Ready(p, serial)
  /\ request' = [request EXCEPT ![p] = ListRequest]
  /\ Respond(p, [status |-> 200,
                 body |-> [items |-> get_documents(documents, analysis_results)]])
  /\ UNCHANGED <<store, uploads, locals, effects>>

\* ---------------------------------------------------------- get_analysis_result
FETCH_FALLBACK ==
  RepDict(required_keys,
          [NoFields EXCEPT !.recommendations = <<"Analysis failed">>,
                           !.critical_issues = <<"Failed to analyze document">>])

\* Mutant: the isinstance check is gone.
IsDictUnchecked(v) == TRUE

\* Line 316: isinstance(analysis_result, dict)
IsDict(v) == v.type = "dict"

\* Line 312: result['doc_type'] or 'Unknown'
StoredType(r) == IF ~Falsy(r.doc_type) THEN r.doc_type ELSE "Unknown"

\* Lines 312-346, and 347-349 for the AttributeError of .get on a value
\* that is no dict.
FetchResponse(r, ar) ==
  LET report == IF ~IsDict(ar) THEN FETCH_FALLBACK ELSE ar
  IN  IF report.type # "dict"
      THEN ErrorResponse(500, "Failed to retrieve analysis")
      ELSE [status |-> 200,
            body |-> [document_id |-> r.id,
                      filename |-> r.filename,
                      classification |->
                        [document_type |-> StoredType(r),
                         confidence_score |->
                           IF ~Falsy(r.confidence) THEN r.confidence ELSE "0.0"],
                      analysis |-> AnalysisPayload(report)]]

\* Mutant: the re-analysis is stored as a new row.
FetchStorePersist(docs, results, id, ar) ==
  <<docs, InsertResult(results, id, "Unknown", "0.0", <<>>, <<>>)>>

\* What get_analysis_result writes to the store: nothing.
FetchStore(docs, results, id, ar) == <<docs, results>>

GetAnalysis(p, serial, replies) ==
  /\ Ready(p, serial)
  /\ \E id \in 1..(MaxDocs + 1) :
       LET r == FetchOne(documents, analysis_results, id)
       IN  /\ request' = [request EXCEPT ![p] = FetchRequest(id)]
           /\ IF r = NoRow
              THEN /\ Respond(p, ErrorResponse(404, "Document not found"))
                   /\ UNCHANGED <<store, analysis_result, doc_type, model_reply,
                                  effects>>
              ELSE \E reply \in RepliesFor(StoredType(r), replies) :
                     LET ar == analyze_missing_fields(r.content, StoredType(r), reply)
                     IN  /\ doc_type' = [doc_type EXCEPT ![p] = StoredType(r)]
                         /\ model_reply' = [model_reply EXCEPT ![p].analyzer = reply]
                         /\ analysis_result' = [analysis_result EXCEPT ![p] = ar]
                         /\ effects' =
                              [effects EXCEPT
                                 ![p].analyze = @ + 1,
                                 ![p].analyze_generate = @ + ModelCalls(StoredType(r))]
                         /\ documents' = FetchStore(documents, analysis_results, id, ar)[1]
                         /\ analysis_results' = FetchStore(documents, analysis_results, id, ar)[2]
                         /\ Respond(p, FetchResponse(r, ar))
  /\ UNCHANGED <<uploads, filename, text_content, doc_id, classification_result>>

\* ------------------------------------------------------------ end of request
\* teardown: the request's context is gone, the thread serves the next one.
Finish(p) ==
  /\ pc[p] = "done"
  /\ pc' = [pc EXCEPT ![p] = "idle"]
  /\ request' = [request EXCEPT ![p] = NoRequest]
  /\ filename' = [filename EXCEPT ![p] = <<>>]
  /\ text_content' = [text_content EXCEPT ![p] = None]
  /\ doc_id' = [doc_id EXCEPT ![p] = 0]
  /\ classification_result' = [classification_result EXCEPT ![p] = NoClassification]
  /\ analysis_result' = [analysis_result EXCEPT ![p] = NoAnalysis]
  /\ doc_type' = [doc_type EXCEPT ![p] = None]
  /\ model_reply' = [model_reply EXCEPT ![p] = NoReplies]
  /\ response' = [response EXCEPT ![p] = NoResponse]
  /\ effects' = [effects EXCEPT ![p] = NoEffects]
  /\ UNCHANGED <<store, uploads>>

\* One step of thread p.
Step(p, serial, classifier, analyzer) ==
  \/ UploadReject(p, serial)
  \/ UploadSave(p, serial)
  \/ UploadExtract(p)
  \/ UploadInsertDocument(p)
  \/ UploadClassify(p, classifier)
  \/ UploadAnalyze(p, analyzer)
  \/ ListDocuments(p, serial)
  \/ GetAnalysis(p, serial, analyzer)
  \/ Finish(p)

\* Requests served concurrently, one thread each (app.run's default).  The
\* classifier's call raises, answers with an object or with a value that is
\* no object; the analyzer's call answers with a report or with a value that
\* is no object.  SpecSerial below draws from every reply.
ConcurrentClassifierReplies ==
  {Reply("raise", ClsNonDict("null")),
   Reply("json", ClsDict(CLASS_KEYS, "Contract", "0.9")),
   Reply("json", ClsNonDict("list"))}

ConcurrentAnalyzerReplies ==
  {   Reply("json", RepDict(required_keys, FullFields)),
   Reply("json", RepNonDict("list", required_keys_seq))}

Next ==
  \E p \in Procs :
    Step(p, FALSE, ConcurrentClassifierReplies, ConcurrentAnalyzerReplies)

Spec == Init /\ [][Next]_vars

\* Requests served one after the other, every reply of the model service.
NextSerial ==
  \E p \in Procs : Step(p, TRUE, ClassifierReplies, AnalyzerReplies)

SpecSerial == Init /\ [][NextSerial]_vars

\* ================================================================== claims
Uploading(p) == request[p].handler = "upload"
Listing(p) == request[p].handler = "list"
Fetching(p) == request[p].handler = "fetch"

\* The analysis_results rows that reference document id.
ResultsOf(id) == {i \in DOMAIN analysis_results : analysis_results[i].doc_id = id}

LastDocument == documents[Len(documents)]
LastResult == analysis_results[Len(analysis_results)]

\* A round trip that went wrong: the call raised, the response is not JSON,
\* or the parsed response lacks one of the keys that were asked for.
ServiceError(reply, wanted) ==
  \/ reply.kind \in {"raise", "invalid"}
  \/ reply.kind = "json" /\ ~(wanted \subseteq reply.value.keys)

\* C1: an upload that answers 201 has added exactly one documents row and
\* exactly one analysis_results row; the new analysis_results row references
\* the new document, whose id is the document_id of the response.  Requests
\* are served one after the other, so the new rows are the last ones.
C1_UploadAddsOneLinkedPair ==
  \A p \in Procs :
    (Uploading(p) /\ response[p].status = 201) =>
      /\ effects[p].documents = 1
      /\ effects[p].results = 1
      /\ documents # <<>>
      /\ analysis_results # <<>>
      /\ LastDocument.id = response[p].body.document_id
      /\ LastResult.doc_id = LastDocument.id
      /\ Cardinality(ResultsOf(LastDocument.id)) = 1

\* A 201 after an earlier upload that left its document without a result,
\* with the classifier's call having raised.
C1_Witness ==
  \E p \in Procs :
    /\ Uploading(p) /\ response[p].status = 201
    /\ Len(documents) = 2 /\ Len(analysis_results) = 1
    /\ model_reply[p].classifier.kind = "raise"

\* C2: every analysis_results row references exactly one documents row, and
\* every documents row is referenced by at most one analysis_results row.
C2_ResultReferencesOneDocument ==
  /\ \A i \in DOMAIN analysis_results :
       Cardinality({j \in DOMAIN documents :
                      documents[j].id = analysis_results[i].doc_id}) = 1
  /\ \A j \in DOMAIN documents : Cardinality(ResultsOf(documents[j].id)) <= 1

\* Two uploads interleaved: the second document got its result first.
C2_Witness ==
  /\ Len(analysis_results) = 2
  /\ analysis_results[1].doc_id = 2
  /\ analysis_results[2].doc_id = 1

\* The name ends in ".pdf", in any case.
EndsInPdf(name) ==
  /\ Len(name) >= 4
  /\ name[Len(name) - 3] = "."
  /\ <<lower(name[Len(name) - 2]), lower(name[Len(name) - 1]), lower(name[Len(name)])>>
       = <<"p", "d", "f">>

\* C3: a rejected upload (no file part or an empty filename: 400; an
\* extension that is not pdf: 400, file type not allowed; a PDF whose text
\* cannot be extracted: 500) inserts no row and calls neither the classifier
\* nor the gap analyzer.
C3_RejectedUploadChangesNothing ==
  \A p \in Procs :
    (Uploading(p) /\ pc[p] = "done") =>
      LET file == request[p].file
          nofile == ~file.present \/ file.filename = EMPTY_NAME
          badtype == ~nofile /\ ~EndsInPdf(file.filename)
          unreadable == ~nofile /\ ~badtype /\ PageText(file.data) = None
      IN  /\ nofile => response[p].status = 400
          /\ badtype => response[p] = ErrorResponse(400, "File type not allowed")
          /\ unreadable => response[p].status = 500
          /\ (nofile \/ badtype \/ unreadable) => effects[p] = NoEffects
          /\ response[p].status = 400 => effects[p] = NoEffects

\* A corrupt PDF was turned down while the store holds a document.
C3_Witness ==
  \E p \in Procs :
    /\ Uploading(p) /\ pc[p] = "done"
    /\ request[p].file.data = CORRUPT
    /\ response[p].status = 500
    /\ Len(documents) >= 1

\* C4: once the text is extracted, an error of the model service in the
\* classifier or in the gap analyzer (the call raises, the response is not
\* JSON, the response lacks the keys) does not fail the upload: the document
\* is committed before the first call, the answer is 201 and the document
\* row exists.
C4_ServiceErrorNeverFailsUpload ==
  \A p \in Procs :
    /\ (Uploading(p) /\ effects[p].classify_generate + effects[p].analyze_generate > 0) =>
         /\ effects[p].documents = 1
         /\ doc_id[p] \in DOMAIN documents
    /\ ( /\ Uploading(p) /\ pc[p] = "done" /\ text_content[p] # None
         /\ \/ ServiceError(model_reply[p].classifier, CLASS_KEYS)
            \/ ServiceError(model_reply[p].analyzer, required_keys) ) =>
         /\ response[p].status = 201
         /\ doc_id[p] \in DOMAIN documents

\* What does hold of C4's case: the answer is 201 whenever the call raised,
\* the response was not JSON, or it was an object (with whatever keys).
C4_ObjectRepliesNeverFailUpload ==
  \A p \in Procs :
    ( /\ Uploading(p) /\ pc[p] = "done" /\ text_content[p] # None
      /\ \/ model_reply[p].classifier.kind \in {"raise", "invalid"}
         \/ model_reply[p].classifier.value.type = "dict"
      /\ (model_reply[p].analyzer.kind = "json" =>
            model_reply[p].analyzer.value.type = "dict") ) =>
      response[p].status = 201

\* The response parsed to an object that lacks one of the keys.
LacksKey(reply, wanted) ==
  /\ reply.kind = "json"
  /\ reply.value.type = "dict"
  /\ ~(wanted \subseteq reply.value.keys)

\* C5, as claimed: classify returns the sentinel whenever the round trip
\* failed: the call raised, the response is not JSON, or the parsed object
\* lacks document_type or confidence_score.
C5_SentinelOnAnyFailure ==
  \A p \in Procs :
    ( /\ effects[p].classify = 1
      /\ \/ model_reply[p].classifier.kind \in {"raise", "invalid"}
         \/ LacksKey(model_reply[p].classifier, CLASS_KEYS) ) =>
      classification_result[p] = SENTINEL

\* C5, amended: classify returns the sentinel when the call raises or the
\* response is not JSON, and the parsed response unchanged otherwise; an
\* upload that answers 201 stores "Other" for an absent document_type and
\* 0.0 for an absent confidence_score.
C5_SentinelOnRaiseOrInvalidJson ==
  \A p \in Procs :
    effects[p].classify = 1 =>
      LET reply == model_reply[p].classifier
          cr == classification_result[p]
      IN  /\ reply.kind \in {"raise", "invalid"} => cr = SENTINEL
          /\ reply.kind = "json" => cr = reply.value
          /\ (response[p].status = 201 /\ reply.kind = "json") =>
               /\ LastResult.doc_type =
                    IF "document_type" \in reply.value.keys
                    THEN reply.value.document_type ELSE "Other"
               /\ LastResult.confidence =
                    IF "confidence_score" \in reply.value.keys
                    THEN reply.value.confidence_score ELSE "0.0"

\* An upload answered 201 although the classifier's response had no
\* document_type.
C5_Witness ==
  \E p \in Procs :
    /\ Uploading(p) /\ response[p].status = 201
    /\ model_reply[p].classifier.kind = "json"
    /\ "document_type" \notin classification_result[p].keys
    /\ LastResult.doc_type = "Other"

\* C6: a fetch of an id that no document has answers 404; a fetch of an
\* existing id answers 200 with an analysis object that holds all seven
\* keys, a key the model did not supply holding its default, whatever the
\* gap analyzer's call did.
C6_FetchPayloadComplete ==
  \A p \in Procs :
    (Fetching(p) /\ pc[p] = "done") =>
      IF request[p].id \notin DOMAIN documents
      THEN response[p].status = 404
      ELSE LET reply == model_reply[p].analyzer
               analysis == response[p].body.analysis
           IN  /\ response[p].status = 200
               /\ response[p].body.document_id = request[p].id
               /\ DOMAIN analysis = required_keys
               /\ (reply.kind = "json" /\ reply.value.type = "dict") =>
                    \A k \in required_keys :
                      analysis[k] = IF k \in reply.value.keys
                                    THEN reply.value[k] ELSE FillDefault(k)
               /\ ~(reply.kind = "json" /\ reply.value.type = "dict") =>
                    \A k \in {"incomplete_fields", "risk_factors",
                              "compliance_notes", "completeness_score"} :
                      analysis[k] = FillDefault(k)

\* A fetch whose re-analysis came back as a value that is no report.
C6_Witness ==
  \E p \in Procs :
    /\ Fetching(p) /\ response[p].status = 200
    /\ analysis_result[p].type = "list"
    /\ response[p].body.analysis.critical_issues = <<"Failed to analyze document">>

\* C7: a list and a fetch (its re-analysis included) leave both tables as
\* they are, and no step of any request changes or removes a documents row.
C7_ReadsChangeNothing ==
  [][ /\ \A p \in Procs :
           (pc[p] = "idle" /\ pc'[p] = "done" /\ request'[p].handler \in {"list", "fetch"}) =>
             /\ documents' = documents
             /\ analysis_results' = analysis_results
      /\ \A i \in DOMAIN documents :
           i \in DOMAIN documents' /\ documents'[i] = documents[i] ]_vars

\* A fetch re-analysed a stored document through the model service.
C7_Witness ==
  \E p \in Procs :
    /\ Fetching(p) /\ response[p].status = 200
    /\ effects[p].analyze_generate = 1
    /\ Len(analysis_results) >= 1

UNKNOWN == [document_type |-> "Unknown", confidence_score |-> "0.0"]

\* What C8 says of the list whatever the defaults: one entry per document,
\* in descending id, with the document's filename.
ListsEveryDocument(items) ==
  /\ Len(items) = Len(documents)
  /\ \A i \in DOMAIN items :
       /\ items[i].document_id = Len(documents) + 1 - i
       /\ items[i].filename = documents[items[i].document_id].filename

\* C8, as claimed: the list holds every document once, most recent first,
\* and an entry is "Unknown" with 0.0 exactly when its document has no
\* analysis_results row.
C8_ListDefaultsExactly ==
  \A p \in Procs :
    (Listing(p) /\ pc[p] = "done") =>
      LET items == response[p].body.items
      IN  /\ ListsEveryDocument(items)
          /\ \A i \in DOMAIN items :
               items[i].classification = UNKNOWN <=> ResultsOf(items[i].document_id) = {}

\* C8, amended: the list holds every document once, most recent first; an
\* entry of a document without a result is "Unknown" with 0.0, an entry of a
\* document with a result holds the stored doc_type and confidence, each
\* replaced by its default when the stored value is NULL, empty or zero.
C8_ListDefaultsWhenAbsentOrFalsy ==
  \A p \in Procs :
    (Listing(p) /\ pc[p] = "done") =>
      LET items == response[p].body.items
      IN  /\ ListsEveryDocument(items)
          /\ \A i \in DOMAIN items :
               LET rs == ResultsOf(items[i].document_id)
               IN  IF rs = {} THEN items[i].classification = UNKNOWN
                   ELSE \E r \in rs :
                          /\ items[i].classification.document_type =
                               IF analysis_results[r].doc_type \in {None, ""}
                               THEN "Unknown" ELSE analysis_results[r].doc_type
                          /\ items[i].classification.confidence_score =
                               IF analysis_results[r].confidence \in {None, "", "0.0"}
                               THEN "0.0" ELSE analysis_results[r].confidence

\* A list of two documents: one without a result, one whose stored type is
\* NULL.
C8_Witness ==
  \E p \in Procs :
    /\ Listing(p) /\ pc[p] = "done"
    /\ Len(response[p].body.items) = 2
    /\ \E i, j \in DOMAIN documents :
         /\ ResultsOf(i) = {}
         /\ \E r \in ResultsOf(j) : analysis_results[r].doc_type = None

\* C9: for a type with required fields the gap analyzer makes one call and,
\* when the call raises or the response does not parse, returns the degraded
\* report; for any other type it makes no call and returns the trivial
\* report, with no missing field.
C9_DegradedOrTrivialReport ==
  \A p \in Procs :
    effects[p].analyze = 1 =>
      LET reply == model_reply[p].analyzer
          report == analysis_result[p]
      IN  IF doc_type[p] \in {"Contract", "Invoice"}
          THEN /\ effects[p].analyze_generate = 1
               /\ reply.kind \in {"raise", "invalid"} =>
                    /\ report.type = "dict"
                    /\ Get(report, "missing_fields", <<>>) = <<"Analysis Error">>
                    /\ Get(report, "recommendations", <<>>) =
                         <<"Could not perform analysis due to an API error.">>
          ELSE /\ effects[p].analyze_generate = 0
               /\ reply.kind = "none"
               /\ report.type = "dict"
               /\ Get(report, "missing_fields", <<"absent">>) = <<>>

\* An Invoice whose analysis call raised.
C9_Witness ==
  \E p \in Procs :
    /\ effects[p].analyze = 1
    /\ doc_type[p] = "Invoice"
    /\ model_reply[p].analyzer.kind = "raise"

\* C10: the content of the document an upload inserted is the text of the
\* bytes that same upload sent.
C10_ContentIsOwnText ==
  \A p \in Procs :
    (Uploading(p) /\ effects[p].documents = 1) =>
      documents[doc_id[p]].content = PageText(request[p].file.data)

====
